---- MODULE Spec2Model ----
(***************************************************************************)
(* Model of pascal_row_impl (code/pyo3_module/src/lib.rs, lines 10-26):    *)
(* the in-place computation of one row of Pascal's triangle in a Vec<u32>. *)
(*                                                                         *)
(* Every invocation is a small state machine over its own locals (n, row,  *)
(* i, j, curr, last) with one action per statement.  Two invocations are   *)
(* modelled so that independent and interleaved calls can be compared.     *)
(*                                                                         *)
(* u32 values are kept at their real width.  TLC's integers are 32-bit     *)
(* signed, so a number is held as two limbs, hi * 2^16 + lo: a u32 has     *)
(* hi < 2^16, and a mathematical (unbounded) natural has any hi >= 0.      *)
(***************************************************************************)
EXTENDS Integers, Sequences, FiniteSets, TLC

\* Largest n a single call is started with (rows up to C(MaxN-1, .)).
MaxN == 37
\* Largest n of each of two interleaved calls.
MaxPairN == 5

Calls == {1, 2}

---------------------------------------------------------------------------
\* Numbers as limbs.

Base == 2^16

Lit(k) == [hi |-> k \div Base, lo |-> k % Base]

Zero == Lit(0)

One == Lit(1)

\* The mathematical sum a + b.
Plus(a, b) ==
    LET s == a.lo + b.lo
    IN  [hi |-> a.hi + b.hi + (s \div Base), lo |-> s % Base]

\* x <= u32::MAX
FitsU32(x) == x.hi < Base

\* x mod 2^32
WrapU32(x) == [hi |-> x.hi % Base, lo |-> x.lo]

\* `a + b` on u32 (line 21).  The source uses the plain operator: with
\* overflow checks compiled in (cargo's dev profile) an overflowing sum
\* panics, without them (release profile) it wraps modulo 2^32.
AddU32(a, b, checks) ==
    LET s == Plus(a, b)
    IN  IF FitsU32(s) THEN [ok |-> TRUE, val |-> s]
        ELSE IF checks THEN [ok |-> FALSE, val |-> s]
        ELSE [ok |-> TRUE, val |-> WrapU32(s)]

---------------------------------------------------------------------------
\* Binomial coefficients as mathematical naturals, by the additive
\* recurrence C(k, x) = C(k-1, x-1) + C(k-1, x).  The reference the
\* properties compare the program against.

NextTriangleRow(p) ==
    [x \in 1..(Len(p) + 1) |->
        Plus(IF x = 1 THEN Zero ELSE p[x - 1],
             IF x = Len(p) + 1 THEN Zero ELSE p[x])]

RECURSIVE TriangleUpTo(_)
TriangleUpTo(k) ==
    IF k = 0 THEN << <<One>> >>
    ELSE LET t == TriangleUpTo(k - 1)
         IN  Append(t, NextTriangleRow(t[k]))

Triangle == TriangleUpTo(MaxN)

\* C(k, x) for 0 <= k <= MaxN; 0 outside 0..k.
Binom(k, x) == IF x < 0 \/ x > k THEN Zero ELSE Triangle[k + 1][x + 1]

BinomRow(k) == [x \in 1..(k + 1) |-> Binom(k, x - 1)]

BinomRowU32(k) == [x \in 1..(k + 1) |-> WrapU32(Binom(k, x - 1))]

\* Every coefficient of rows 0..nn-1 fits in a u32.
RowsFit(nn) == \A k \in 0..(nn - 1) : \A x \in 0..k : FitsU32(Binom(k, x))

---------------------------------------------------------------------------
\* The pieces of pascal_row_impl.

\* Vec::with_capacity(n); row.resize(n, 0)
Resize(len) == [x \in 1..len |-> Zero]

\* The bounds check of v[idx] (idx is 0-based).
InBounds(v, idx) == idx >= 0 /\ idx < Len(v)

\* for i in 1..n
OuterCond(ii, nn) == ii < nn

InnerCondExclusive(jj, ii) == jj < ii

\* for j in 1..(i + 1)
InnerCond(jj, ii) == jj < ii + 1

\* Lines 19 and 20 exchanged: last takes the value just read from row[j].
InnerStepSwapped(rowv, currv, jj, checks) ==
    IF ~InBounds(rowv, jj)
    THEN [ok |-> FALSE, row |-> rowv, last |-> currv, curr |-> currv]
    ELSE LET newcurr == rowv[jj + 1]
             lastv == newcurr
             sum == AddU32(lastv, newcurr, checks)
         IN  IF sum.ok
             THEN [ok |-> TRUE, row |-> [rowv EXCEPT ![jj + 1] = sum.val],
                   last |-> lastv, curr |-> newcurr]
             ELSE [ok |-> FALSE, row |-> rowv, last |-> lastv, curr |-> newcurr]

\* The body of the inner loop: last = curr; curr = row[j]; row[j] = last + curr.
\* ok = FALSE is a panic (index out of bounds, or a checked overflow).
InnerStep(rowv, currv, jj, checks) ==
    IF ~InBounds(rowv, jj)
    THEN [ok |-> FALSE, row |-> rowv, last |-> currv, curr |-> currv]
    ELSE LET lastv == currv
             newcurr == rowv[jj + 1]
             sum == AddU32(lastv, newcurr, checks)
         IN  IF sum.ok
             THEN [ok |-> TRUE, row |-> [rowv EXCEPT ![jj + 1] = sum.val],
                   last |-> lastv, curr |-> newcurr]
             ELSE [ok |-> FALSE, row |-> rowv, last |-> lastv, curr |-> newcurr]

\* pascal_row_impl as a function of its argument: what one call, run from
\* entry to exit with nothing else running, produces.
RECURSIVE InnerLoop(_, _, _, _, _)
InnerLoop(rowv, currv, jj, ii, checks) ==
    IF ~InnerCond(jj, ii) THEN [ok |-> TRUE, row |-> rowv]
    ELSE LET s == InnerStep(rowv, currv, jj, checks)
         IN  IF ~s.ok THEN [ok |-> FALSE, row |-> rowv]
             ELSE InnerLoop(s.row, s.curr, jj + 1, ii, checks)

RECURSIVE OuterLoop(_, _, _, _)
OuterLoop(rowv, ii, nn, checks) ==
    IF ~OuterCond(ii, nn) THEN [ok |-> TRUE, row |-> rowv]
    ELSE LET r == InnerLoop(rowv, One, 1, ii, checks)
         IN  IF ~r.ok THEN r ELSE OuterLoop(r.row, ii + 1, nn, checks)

pascal_row_impl(nn, checks) ==
    LET r0 == Resize(nn)
    IN  IF ~InBounds(r0, 0) THEN [ok |-> FALSE, row |-> r0]
        ELSE OuterLoop([r0 EXCEPT ![1] = One], 1, nn, checks)

---------------------------------------------------------------------------
\* State.

VARIABLES
    overflow_checks,  \* the build: are arithmetic overflow checks compiled in
    n,                \* n[c]: the argument of call c
    row,              \* row[b]: the Vec<u32> buffer b
    i,                \* i[c]: the outer loop variable
    j,                \* j[c]: the inner loop variable
    curr,             \* curr[c]
    last,             \* last[c]
    pc,               \* pc[c]: where call c is
    result,           \* result[c]: the Vec the call returned
    updates           \* updates[c]: how many times line 21 has stored into row

vars == <<overflow_checks, n, row, i, j, curr, last, pc, result, updates>>

StaticBuf(c) == 1

\* The buffer call c works on: `let mut row` is a local of the call.
Buf(c) == c

Finished == {"done", "panic"}

\* Locals before the call has run.  i, j and curr are not yet in scope and
\* last is declared without a value (it is always assigned before it is read).
InitLocals ==
    /\ row = [c \in Calls |-> <<>>]
    /\ i = [c \in Calls |-> 0]
    /\ j = [c \in Calls |-> 0]
    /\ curr = [c \in Calls |-> Zero]
    /\ last = [c \in Calls |-> Zero]
    /\ result = [c \in Calls |-> <<>>]
    /\ updates = [c \in Calls |-> 0]

\* One call.
Init ==
    /\ overflow_checks \in BOOLEAN
    /\ \E n1 \in 0..MaxN : n = [c \in Calls |-> IF c = 1 THEN n1 ELSE 0]
    /\ pc = [c \in Calls |-> IF c = 1 THEN "entry" ELSE "idle"]
    /\ InitLocals

\* Two calls one after the other: generate_row(n1), then generate_row(n1 + 1).
InitCross ==
    /\ overflow_checks \in BOOLEAN
    /\ \E n1 \in 0..(MaxN - 1) : n = [c \in Calls |-> IF c = 1 THEN n1 ELSE n1 + 1]
    /\ pc = [c \in Calls |-> IF c = 1 THEN "entry" ELSE "waiting"]
    /\ InitLocals

\* Two calls whose steps interleave.
InitPair ==
    /\ overflow_checks \in BOOLEAN
    /\ n \in [Calls -> 0..MaxPairN]
    /\ pc = [c \in Calls |-> "entry"]
    /\ InitLocals

---------------------------------------------------------------------------
\* Actions: one per statement of pascal_row_impl.

\* Lines 11-12: allocate the buffer, n zeros.
Alloc(c) ==
    /\ pc[c] = "entry"
    /\ row' = [row EXCEPT ![Buf(c)] = Resize(n[c])]
    /\ pc' = [pc EXCEPT ![c] = "first"]
    /\ UNCHANGED <<overflow_checks, n, i, j, curr, last, result, updates>>

\* Line 13: row[0] = 1; then the range 1..n of line 16 is entered.
SetFirst(c) ==
    /\ pc[c] = "first"
    /\ IF InBounds(row[Buf(c)], 0)
       THEN /\ row' = [row EXCEPT ![Buf(c)][1] = One]
            /\ i' = [i EXCEPT ![c] = 1]
            /\ pc' = [pc EXCEPT ![c] = "outer"]
       ELSE /\ pc' = [pc EXCEPT ![c] = "panic"]
            /\ UNCHANGED <<row, i>>
    /\ UNCHANGED <<overflow_checks, n, j, curr, last, result, updates>>

\* Lines 16-18: the head of the outer loop; curr = 1 and the range 1..(i+1).
OuterNext(c) ==
    /\ pc[c] = "outer"
    /\ IF OuterCond(i[c], n[c])
       THEN /\ curr' = [curr EXCEPT ![c] = One]
            /\ j' = [j EXCEPT ![c] = 1]
            /\ pc' = [pc EXCEPT ![c] = "inner"]
       ELSE /\ pc' = [pc EXCEPT ![c] = "ret"]
            /\ UNCHANGED <<curr, j>>
    /\ UNCHANGED <<overflow_checks, n, row, i, last, result, updates>>

\* Lines 19-21: one pass of the inner loop's body, at position j.
InnerBody(c) ==
    /\ pc[c] = "inner"
    /\ InnerCond(j[c], i[c])
    /\ LET s == InnerStep(row[Buf(c)], curr[c], j[c], overflow_checks)
       IN  IF s.ok
           THEN /\ row' = [row EXCEPT ![Buf(c)] = s.row]
                /\ last' = [last EXCEPT ![c] = s.last]
                /\ curr' = [curr EXCEPT ![c] = s.curr]
                /\ j' = [j EXCEPT ![c] = j[c] + 1]
                /\ updates' = [updates EXCEPT ![c] = updates[c] + 1]
                /\ pc' = pc
           ELSE /\ pc' = [pc EXCEPT ![c] = "panic"]
                /\ UNCHANGED <<row, last, curr, j, updates>>
    /\ UNCHANGED <<overflow_checks, n, i, result>>

\* Line 18/22: the inner range is exhausted; on to the next generation.
InnerDone(c) ==
    /\ pc[c] = "inner"
    /\ ~InnerCond(j[c], i[c])
    /\ i' = [i EXCEPT ![c] = i[c] + 1]
    /\ pc' = [pc EXCEPT ![c] = "outer"]
    /\ UNCHANGED <<overflow_checks, n, row, j, curr, last, result, updates>>

\* Line 25: the buffer is moved out to the caller.
Return(c) ==
    /\ pc[c] = "ret"
    /\ result' = [result EXCEPT ![c] = row[Buf(c)]]
    /\ pc' = [pc EXCEPT ![c] = "done"]
    /\ UNCHANGED <<overflow_checks, n, row, i, j, curr, last, updates>>

\* Lines 30-31: the host calls pascal_row again once the first call returned.
HostSecondCall ==
    /\ pc[1] = "done"
    /\ pc[2] = "waiting"
    /\ pc' = [pc EXCEPT ![2] = "entry"]
    /\ UNCHANGED <<overflow_checks, n, row, i, j, curr, last, result, updates>>

Step(c) ==
    \/ Alloc(c)
    \/ SetFirst(c)
    \/ OuterNext(c)
    \/ InnerBody(c)
    \/ InnerDone(c)
    \/ Return(c)

Next == \E c \in Calls : Step(c)

NextCross == (\E c \in Calls : Step(c)) \/ HostSecondCall

Spec == Init /\ [][Next]_vars

SpecCross == InitCross /\ [][NextCross]_vars

SpecPair == InitPair /\ [][Next]_vars

---------------------------------------------------------------------------
\* Properties.

Returned(c) == pc[c] = "done"

\* C1: generate_row(0) returns the empty sequence, without indexing into the
\* zero-length buffer (an index into it is an out-of-bounds panic).
C1_ZeroReturnsEmpty ==
    \A c \in Calls :
        n[c] = 0 => /\ pc[c] # "panic"
                    /\ (Returned(c) => result[c] = <<>>)

\* C2: for n >= 1 with every coefficient of rows 0..n-1 within u32, the call
\* returns (it does not panic) and the returned sequence holds C(n-1, x) at
\* every index x; generate_row(1) = [1], generate_row(5) = [1,4,6,4,1],
\* generate_row(6) = [1,5,10,10,5,1].
C2_ExactRow ==
    \A c \in Calls :
        (n[c] >= 1 /\ RowsFit(n[c])) =>
            /\ pc[c] # "panic"
            /\ Returned(c) =>
                /\ result[c] = BinomRow(n[c] - 1)
                /\ (n[c] = 1 => result[c] = <<One>>)
                /\ (n[c] = 5 => result[c] = <<Lit(1), Lit(4), Lit(6), Lit(4), Lit(1)>>)
                /\ (n[c] = 6 => result[c] =
                        <<Lit(1), Lit(5), Lit(10), Lit(10), Lit(5), Lit(1)>>)

C2_Witness ==
    /\ Returned(1)
    /\ n[1] = 6
    /\ result[1] = <<Lit(1), Lit(5), Lit(10), Lit(10), Lit(5), Lit(1)>>

\* C3: for every n >= 0 the call returns a sequence of length exactly n: a
\* call that has ended has returned, and what it returned has length n.
C3_LengthExactlyN ==
    \A c \in Calls :
        pc[c] \in Finished => (Returned(c) /\ Len(result[c]) = n[c])

\* C4: no execution reaches a failure state: no call ever panics.
C4_NeverFails == \A c \in Calls : pc[c] # "panic"

\* C5: for every n >= 1 the call never raises an error, overflowing sums
\* wrap, and the returned element at index x is C(n-1, x) mod 2^32.
C5_SilentWrap ==
    \A c \in Calls :
        n[c] >= 1 =>
            /\ pc[c] # "panic"
            /\ (Returned(c) => result[c] = BinomRowU32(n[c] - 1))

\* C6: for n >= 1 the returned sequence is a palindrome,
\* result[x] = result[n-1-x], and its first and last elements are 1.
C6_Palindrome ==
    \A c \in Calls :
        (Returned(c) /\ n[c] >= 1) =>
            /\ Len(result[c]) = n[c]
            /\ result[c][1] = One
            /\ result[c][n[c]] = One
            /\ \A x \in 1..n[c] : result[c][x] = result[c][n[c] + 1 - x]

\* A returned row in which a sum has wrapped.
C6_Witness ==
    /\ Returned(1)
    /\ n[1] = 36
    /\ result[1] # BinomRow(35)

\* Both calls of the cross-call check have returned: call 1 is
\* generate_row(n-1), call 2 is generate_row(n), n >= 2.
CrossReturned ==
    /\ Returned(1)
    /\ Returned(2)
    /\ n[2] = n[1] + 1
    /\ n[2] >= 2

\* C7 as stated: generate_row(n)[x] = generate_row(n-1)[x-1] +
\* generate_row(n-1)[x] for x in 1..n-2, the sum being the integer sum.
C7_CrossRecurrenceExact ==
    CrossReturned =>
        \A x \in 1..(n[2] - 2) :
            result[2][x + 1] = Plus(result[1][x], result[1][x + 1])

\* C7, as amended: generate_row(n)[x] is the sum of generate_row(n-1)[x-1]
\* and generate_row(n-1)[x] modulo 2^32, for x in 1..n-2; it is the integer
\* sum whenever that sum is below 2^32.
C7_CrossRecurrenceMod ==
    CrossReturned =>
        \A x \in 1..(n[2] - 2) :
            LET sum == Plus(result[1][x], result[1][x + 1])
            IN  /\ result[2][x + 1] = WrapU32(sum)
                /\ (FitsU32(sum) => result[2][x + 1] = sum)

\* Both calls returned and a sum of two neighbours of the shorter row
\* exceeds u32.
C7_Witness ==
    /\ CrossReturned
    /\ \E x \in 1..(n[2] - 2) : ~FitsU32(Plus(result[1][x], result[1][x + 1]))

\* C8: whatever the interleaving of the two calls' steps, a call ends the way
\* it ends when run alone: it returns exactly the sequence pascal_row_impl
\* yields for its n (and panics only if it panics alone), so two calls with
\* the same n return identical sequences.
C8_Isolation ==
    /\ \A c \in Calls :
        LET alone == pascal_row_impl(n[c], overflow_checks)
        IN  /\ (Returned(c) => (alone.ok /\ result[c] = alone.row))
            /\ (pc[c] = "panic" => ~alone.ok)
    /\ \A c, d \in Calls :
        (Returned(c) /\ Returned(d) /\ n[c] = n[d]) => result[c] = result[d]

C8_Witness ==
    /\ Returned(1)
    /\ Returned(2)
    /\ n[1] = 4
    /\ n[2] = 4
    /\ result[1] = <<Lit(1), Lit(3), Lit(3), Lit(1)>>
    /\ result[2] = result[1]

\* C9 as stated: the row is produced in a single linear pass over the
\* buffer, so a call stores into buffer positions at most n times.
C9_LinearUpdates ==
    \A c \in Calls : Returned(c) => updates[c] <= n[c]

\* C9, as amended: a call performs exactly n(n-1)/2 buffer-position updates
\* (generation i updates positions 1..i, for i = 1..n-1): quadratic in n.
C9_QuadraticUpdates ==
    \A c \in Calls :
        /\ (n[c] >= 1 => 2 * updates[c] <= n[c] * (n[c] - 1))
        /\ (Returned(c) => 2 * updates[c] = n[c] * (n[c] - 1))

C9_Witness ==
    /\ Returned(1)
    /\ n[1] = 6
    /\ updates[1] = 15

\* The loop invariant of the in-place update, with V(k, x) the value of row
\* k at index x: while generation i is being derived and positions 1..j-1
\* have been processed, positions 1..j-1 hold row i's values; and immediately
\* before position j is processed, position j holds row i-1's value at j
\* (0 when j = i) and curr holds row i-1's value at j-1.
LoopInvariant(V(_, _)) ==
    \A c \in Calls :
        (pc[c] = "inner" /\ n[c] >= 2) =>
            /\ i[c] \in 1..(n[c] - 1)
            /\ j[c] \in 1..(i[c] + 1)
            /\ Len(row[c]) = n[c]
            /\ \A x \in 1..(j[c] - 1) : row[c][x + 1] = V(i[c], x)
            /\ InnerCond(j[c], i[c]) =>
                /\ row[c][j[c] + 1] = V(i[c] - 1, j[c])
                /\ (j[c] = i[c] => row[c][j[c] + 1] = Zero)
                /\ curr[c] = V(i[c] - 1, j[c] - 1)

BinomU32(k, x) == WrapU32(Binom(k, x))

\* C10 as stated: the loop invariant with the binomial coefficients
\* themselves, so that each update writes C(i, j) at position j.
C10_LoopInvariantExact == LoopInvariant(Binom)

\* C10, as amended: the loop invariant with every value taken modulo 2^32,
\* so that each update that completes writes C(i, j) mod 2^32 at position j.
C10_LoopInvariantMod == LoopInvariant(BinomU32)

\* Mid-generation, with positions both already updated and still to update.
C10_Witness ==
    /\ pc[1] = "inner"
    /\ n[1] = 36
    /\ i[1] = 35
    /\ j[1] = 18
    /\ row[1][18] # Binom(35, 17)

====
